---- MODULE Spec2Model ----
(***************************************************************************)
(* TaskPilot REST API: the auth routes (register, login), the auth         *)
(* middleware, /me, and the owner-scoped task routes (list, create, get,   *)
(* update, delete) over the Credential Store and the Task Store.           *)
(***************************************************************************)
EXTENDS Integers, Sequences, FiniteSets, TLC

\* ------------------------------------------------------------------ bounds
MaxUsers == 2
MaxTasks == 2
MaxTime == 3
MaxProcs == 2
MaxInFlight == 2
MaxPage == 2

\* ------------------------------------------------------- program constants
MinPasswordLen == 6
\* expiresIn: '1h', in clock ticks of half an hour
TokenTTL == 2
InitialLimit == 5
DefaultPage == 1
DefaultLimit == 10
MaxLimit == 100

\* ------------------------------------------------------------ JSON values
\* A request field is absent, a string (a sequence of characters), a
\* boolean, or a number (standing for any value that is neither).
Absent == [t |-> "absent", s |-> <<>>, b |-> FALSE]
Num(digits) == [t |-> "num", s |-> digits, b |-> FALSE]
Str(x) == [t |-> "str", s |-> x, b |-> FALSE]
Bool(x) == [t |-> "bool", s |-> <<>>, b |-> x]

\* express-validator's toString: the text the standard validators look at.
ToStr(v) ==
    CASE v.t = "str" -> v.s
      [] v.t = "num" -> v.s
      [] v.t = "bool" -> IF v.b THEN <<"t", "r", "u", "e">> ELSE <<"f", "a", "l", "s", "e">>
      [] OTHER -> <<>>

RECURSIVE TrimLeft(_)
TrimLeft(s) == IF s # <<>> /\ Head(s) = " " THEN TrimLeft(Tail(s)) ELSE s

RECURSIVE TrimRight(_)
TrimRight(s) ==
    IF s # <<>> /\ s[Len(s)] = " " THEN TrimRight(SubSeq(s, 1, Len(s) - 1)) ELSE s

Trim(s) == TrimRight(TrimLeft(s))

IsString(v) == v.t = "str"

NotEmpty(v) == ToStr(v) # <<>>

IsEmail(v) ==
    LET e == ToStr(v) IN
    \E i \in 2..(Len(e) - 1) :
       /\ e[i] = "@"
       /\ \A j \in 1..Len(e) : (e[j] = "@" => j = i) /\ e[j] # " "

IsBoolean(v) ==
    ToStr(v) \in {<<"t", "r", "u", "e">>, <<"f", "a", "l", "s", "e">>, <<"1">>, <<"0">>}

\* Mongoose's cast of a validated value to the Boolean schema type.
CastBoolean(v) ==
    IF v.t = "bool" THEN v.b ELSE ToStr(v) \in {<<"t", "r", "u", "e">>, <<"1">>}

IsMongoId(id) == id >= 1

\* bcryptjs: hash and compare reject a non-string argument with an error.
HashThrows(v) == v.t # "str"

Hash(v) == <<"$">> \o v.s

Compare(v, hash) == Hash(v) = hash

\* ----------------------------------------------------------- input values
\* JSON numbers, as a client may send them in place of text.
Num5 == Num(<<"5">>)
NumPw == Num(<<"1", "2", "3", "4", "5", "6">>)
EmailA == <<"a", "@", "x">>
EmailB == <<"b", "@", "x">>
Pw1 == <<"s", "e", "c", "r", "e", "1">>
Pw2 == <<"s", "e", "c", "r", "e", "2">>

\* A request body: the fields a handler may read, and an owner field the
\* client may add (NoUser when it does not).
NoBody == [title |-> Absent, description |-> Absent, completed |-> Absent, owner |-> 0]

NoUser == 0
NoId == 0
BadId == -1
IdVals == {BadId} \cup 1..MaxTasks
Procs == 1..MaxProcs

\* Query parameters: absent ({}) or one value.
NoQuery == [completed |-> {}, page |-> {}, limit |-> {}, sort |-> {}, owner |-> {}]

\* ----------------------------------------------------------------- tokens
NoToken == [kind |-> "none", id |-> NoUser, exp |-> 0]
BadToken == [kind |-> "bad", id |-> NoUser, exp |-> 0]

\* The server's state (users .. last), the browser client's state (client)
\* and the HTTP exchanges between the two that are under way (net).
VARIABLES users, tasks, nextUserId, nextTaskId, now, issued, reg, lst, last, client, net

vars == <<users, tasks, nextUserId, nextTaskId, now, issued, reg, lst, last, client, net>>

\* A step of the server on a request that no modelled client sent.
Direct == UNCHANGED <<client, net>>

\* ---------------------------------------------------------- client state
\* The state of the Tasks component when it mounts: the useState initial
\* values. error is the text shown, as the list of its parts (<<>> for
\* null); editingId is NoId for null.
TasksMounted ==
    [tasks |-> <<>>, loading |-> FALSE, error |-> <<>>, editingId |-> NoId, editTitle |-> <<>>,
     editDescription |-> <<>>, completedFilter |-> "all", sortOrder |-> "desc",
     page |-> 1, limit |-> InitialLimit]

\* useAuth and the route shown, with a token held (token) and kept in
\* localStorage (stored), or without one: token, the stored token and the
\* user are null (NoToken, {}) and every route leads to the login view.
Session(tok, user) ==
    [token |-> tok, stored |-> tok, user |-> user,
     view |-> IF tok = NoToken THEN "login" ELSE "tasks"]

\* The client's state: the session and the Tasks component's state, which
\* is that of a fresh mount whenever the component is not shown.
Client(session, component) == session @@ component

\* The client with no session, on the login view.
NoClient == Client(Session(NoToken, {}), TasksMounted)

\* jwt.sign({ id: user._id }, JWT_SECRET, { expiresIn: '1h' })
Sign(uid) == [kind |-> "jwt", id |-> uid, exp |-> now + TokenTTL]

\* The auth middleware: the identity the token resolves to, NoUser when it
\* is missing, malformed or expired.
VerifyToken(tok) ==
    IF /\ tok.kind = "jwt"
       /\ now < tok.exp
       /\ \E u \in users : u.id = tok.id
    THEN tok.id
    ELSE NoUser

PublicUser(u) == [id |-> u.id, name |-> u.name, email |-> u.email]

\* ---------------------------------------------------------------- responses
NoMeta == [total |-> 0, page |-> 0, limit |-> 0, pages |-> 0]

\* The last response sent, with the route and the bearer token of its
\* request and the filter { owner, _id } of the Task Store call behind it
\* (NoUser, NoId when there was none).
NoResp ==
    [op |-> "none", auth |-> NoToken, owner |-> NoUser, id |-> NoId,
     status |-> 0, message |-> "", errors |-> <<>>,
     token |-> {}, user |-> {}, task |-> {}, tasks |-> <<>>, meta |-> NoMeta]

Respond(op, tok, owner, id, status, message) ==
    [NoResp EXCEPT !.op = op, !.auth = tok, !.owner = owner, !.id = id,
                   !.status = status, !.message = message]

Unauthorized(op, tok) == Respond(op, tok, NoUser, NoId, 401, "Unauthorized")

ServerError(op) == Respond(op, NoToken, NoUser, NoId, 500, "Server error")

NotFound(op, tok, owner, id) == Respond(op, tok, owner, id, 404, "Task not found")

\* handleValidation
Invalid(op, tok, errs) ==
    [Respond(op, tok, NoUser, NoId, 400, "") EXCEPT !.errors = errs]

Err(cond, param, msg) == IF cond THEN <<[param |-> param, msg |-> msg]>> ELSE <<>>

\* The chain without its trim(): notEmpty looks at the text as sent.
RequiredText_NoTrim(v, param, msg) ==
    Err(~IsString(v), param, "Invalid value")
    \o Err(ToStr(v) = <<>>, param, msg)

\* The errors of the chain isString().trim().notEmpty().withMessage(msg):
\* isString fails with the default message, notEmpty looks at the trimmed
\* string form.
RequiredText(v, param, msg) ==
    Err(~IsString(v), param, "Invalid value")
    \o Err(Trim(ToStr(v)) = <<>>, param, msg)

RegIdle == [pc |-> "idle", name |-> <<>>, email |-> <<>>, password |-> <<>>]

LstIdle ==
    [pc |-> "idle", auth |-> NoToken, owner |-> NoUser, completed |-> {}, page |-> 0, limit |-> 0,
     sort |-> {}, found |-> {}, total |-> {}]

\* The state after construction: both stores empty.
InitAuth ==
    /\ users = {}
    /\ tasks = {}
    /\ nextUserId = 1
    /\ nextTaskId = 1
    /\ now = 0
    /\ issued = {}
    /\ reg = [p \in Procs |-> RegIdle]
    /\ lst = LstIdle
    /\ last = NoResp
    /\ client = NoClient
    /\ net = <<>>

\* --------------------------------------------------------------- auth.js
RegisterErrors(name, email, password) ==
    RequiredText(name, "name", "name is required")
    \o Err(~IsEmail(email), "email", "valid email is required")
    \o Err(Len(ToStr(password)) < MinPasswordLen, "password",
           "password must be at least 6 characters")

\* A lookup that never matches.
FindUserByEmail_Never(email) == {}

\* User.findOne({ email })
FindUserByEmail(email) == {u \in users : u.email = email.s}

\* A collection without the unique index.
UserCreateThrows_NoIndex(email) == FALSE

\* User.create: the unique index on email rejects a second record.
UserCreateThrows(email) == \E u \in users : u.email = email

\* POST /auth/register up to its first store call and the hashing:
\* validation, User.findOne, bcrypt.genSalt, bcrypt.hash.
RegisterLookup(p, name, email, password) ==
    LET errs == RegisterErrors(name, email, password) IN
    /\ reg[p].pc = "idle"
    /\ IF errs # <<>>
       THEN /\ last' = Invalid("register", NoToken, errs)
            /\ reg' = reg
       ELSE IF FindUserByEmail(email) # {}
       THEN /\ last' = Respond("register", NoToken, NoUser, NoId, 409, "Email already registered")
            /\ reg' = reg
       ELSE IF HashThrows(password)
       THEN /\ last' = ServerError("register")
            /\ reg' = reg
       ELSE /\ reg' = [reg EXCEPT ![p] = [pc |-> "create", name |-> Trim(name.s),
                                          email |-> email.s, password |-> Hash(password)]]
            /\ last' = last
    /\ UNCHANGED <<users, tasks, nextUserId, nextTaskId, now, issued, lst>>

\* POST /auth/register from User.create to the response.
RegisterCreate(p) ==
    LET user == [id |-> nextUserId, name |-> reg[p].name, email |-> reg[p].email,
                 password |-> reg[p].password]
        token == Sign(user.id)
    IN
    /\ reg[p].pc = "create"
    /\ reg' = [reg EXCEPT ![p] = RegIdle]
    /\ IF UserCreateThrows(reg[p].email)
       THEN /\ last' = ServerError("register")
            /\ UNCHANGED <<users, nextUserId, issued>>
       ELSE /\ nextUserId <= MaxUsers
            /\ users' = users \cup {user}
            /\ nextUserId' = nextUserId + 1
            /\ issued' = issued \cup {token}
            /\ last' = [Respond("register", NoToken, NoUser, NoId, 201, "")
                          EXCEPT !.token = {token}, !.user = {PublicUser(user)}]
    /\ UNCHANGED <<tasks, nextTaskId, now, lst>>

LoginErrors(email, password) ==
    Err(~IsEmail(email), "email", "valid email is required")
    \o Err(~NotEmpty(password), "password", "password is required")

\* The response of POST /auth/login.
LoginResponse(email, password) ==
    LET errs == LoginErrors(email, password)
        found == FindUserByEmail(email)
        user == CHOOSE u \in found : TRUE
    IN
    IF errs # <<>>
    THEN Invalid("login", NoToken, errs)
    ELSE IF found = {}
    THEN Respond("login", NoToken, NoUser, NoId, 401, "Invalid credentials")
    ELSE IF HashThrows(password)
    THEN ServerError("login")
    ELSE IF ~Compare(password, user.password)
    THEN Respond("login", NoToken, NoUser, NoId, 401, "Invalid credentials")
    ELSE [Respond("login", NoToken, NoUser, NoId, 200, "")
            EXCEPT !.token = {Sign(user.id)}, !.user = {PublicUser(user)}]

\* POST /auth/login
Login(email, password) ==
    /\ last' = LoginResponse(email, password)
    /\ issued' = issued \cup last'.token
    /\ UNCHANGED <<users, tasks, nextUserId, nextTaskId, now, reg, lst>>

\* The Register payloads that pass validation.
WellFormedRegisters ==
    {Str(<<"A", " ">>)} \X {Str(EmailA), Str(EmailB)} \X {Str(Pw1), Str(Pw2), NumPw}

\* The Register payloads sent: those, and payloads with one bad field or
\* with none good.
RegisterPayloads ==
    WellFormedRegisters
    \cup ({Absent, Str(<<" ">>)} \X {Str(EmailA)} \X {Str(Pw1)})
    \cup ({Str(<<"A", " ">>)} \X {Absent, Str(<<"a">>)} \X {Str(Pw1)})
    \cup ({Str(<<"A", " ">>)} \X {Str(EmailA)} \X {Absent, Str(<<"s", "e", "c">>)})
    \cup {<<Absent, Absent, Absent>>}

\* The Login payloads that pass validation.
WellFormedLogins ==
    {Str(EmailA), Str(EmailB)} \X {Str(<<"s", "e", "c">>), Str(Pw1), Str(Pw2), NumPw}

\* The Login payloads sent: those, and payloads with a bad field.
LoginPayloads ==
    WellFormedLogins
    \cup ({Absent, Str(<<"a">>)} \X {Str(Pw1)})
    \cup {<<Str(EmailA), Absent>>, <<Absent, Absent>>}

NextAuth ==
    \/ \E p \in Procs, r \in RegisterPayloads : RegisterLookup(p, r[1], r[2], r[3]) /\ Direct
    \/ \E p \in Procs : RegisterCreate(p) /\ Direct
    \/ \E r \in LoginPayloads : Login(r[1], r[2]) /\ Direct

SpecAuth == InitAuth /\ [][NextAuth]_vars

\* ------------------------------------------------------ index.js, tasks.js
\* The task routes are exercised from the state in which two users registered
\* at time 0 and logged in again when the tokens of their registrations
\* expired: each holds an expired and a valid token.
UserA == [id |-> 1, name |-> <<"A">>, email |-> EmailA, password |-> Hash(Str(Pw1))]
UserB == [id |-> 2, name |-> <<"A">>, email |-> EmailB, password |-> Hash(Str(Pw2))]

Init ==
    /\ users = {UserA, UserB}
    /\ tasks = {}
    /\ nextUserId = 3
    /\ nextTaskId = 1
    /\ now = TokenTTL
    /\ issued = {[kind |-> "jwt", id |-> u, exp |-> e] :
                   u \in {1, 2}, e \in {TokenTTL, 2 * TokenTTL}}
    /\ reg = [p \in Procs |-> RegIdle]
    /\ lst = LstIdle
    /\ last = NoResp
    /\ client = NoClient
    /\ net = <<>>

Tick ==
    /\ now < MaxTime
    /\ now' = now + 1
    /\ UNCHANGED <<users, tasks, nextUserId, nextTaskId, issued, reg, lst, last>>

\* GET /me
Me(tok) ==
    LET caller == VerifyToken(tok)
        user == CHOOSE u \in users : u.id = caller
    IN
    /\ last' = IF caller = NoUser
               THEN Unauthorized("me", tok)
               ELSE [Respond("me", tok, NoUser, NoId, 200, "") EXCEPT !.user = {PublicUser(user)}]
    /\ UNCHANGED <<users, tasks, nextUserId, nextTaskId, now, issued, reg, lst>>

\* ------------------------------------------------------------- Task store
Max(a, b) == IF a >= b THEN a ELSE b

Min(a, b) == IF a <= b THEN a ELSE b

\* Math.ceil(a / b)
Ceil(a, b) == (a + b - 1) \div b

Code(c) ==
    CASE c = " " -> 32
      [] c = "a" -> 97
      [] c = "b" -> 98
      [] OTHER -> 100

\* Binary string order.
RECURSIVE StrLeq(_, _)
StrLeq(x, y) ==
    IF x = <<>> THEN TRUE
    ELSE IF y = <<>> THEN FALSE
    ELSE IF Code(Head(x)) # Code(Head(y)) THEN Code(Head(x)) < Code(Head(y))
    ELSE StrLeq(Tail(x), Tail(y))

\* t may come before u under the sort specification.
SortLeq(t, u, field, dir) ==
    LET leq(a, b) == IF field = "title" THEN StrLeq(a.title, b.title)
                     ELSE a.createdAt <= b.createdAt
    IN IF dir = 1 THEN leq(t, u) ELSE leq(u, t)

\* A lookup by identifier alone.
FindOwned_AnyOwner(id, owner) == {t \in tasks : t.id = id}

\* Task.findOne({ _id, owner }); the same filter selects the task of
\* findOneAndUpdate and findOneAndDelete.
FindOwned(id, owner) == {t \in tasks : t.id = id /\ t.owner = owner}

\* A List filter without the owner.
Matching_AnyOwner(store, owner, completed) ==
    {t \in store : completed = {} \/ t.completed \in completed}

\* The documents matching the List filter { owner, completed? }.
Matching(store, owner, completed) ==
    {t \in store : t.owner = owner /\ (completed = {} \/ t.completed \in completed)}

\* A find that takes the first documents whatever the page.
FindResults_NoSkip(store, owner, completed, field, dir, skip, limit) ==
    LET M == Matching(store, owner, completed)
        n == Cardinality(M)
        orders == {f \in [1..n -> M] :
                     /\ \A i, j \in 1..n : i # j => f[i] # f[j]
                     /\ \A i, j \in 1..n : i < j => SortLeq(f[i], f[j], field, dir)}
    IN {SubSeq(f, 1, Min(n, limit)) : f \in orders}

\* Task.find(filter).sort(sort).skip(skip).limit(limit): every order the
\* engine may return for documents with equal sort keys.
FindResults(store, owner, completed, field, dir, skip, limit) ==
    LET M == Matching(store, owner, completed)
        n == Cardinality(M)
        orders == {f \in [1..n -> M] :
                     /\ \A i, j \in 1..n : i # j => f[i] # f[j]
                     /\ \A i, j \in 1..n : i < j => SortLeq(f[i], f[j], field, dir)}
    IN {SubSeq(f, skip + 1, Min(n, skip + limit)) : f \in orders}

\* Task.countDocuments(filter)
CountDocuments(store, owner, completed) == Cardinality(Matching(store, owner, completed))

\* ------------------------------------------------------------ GET /tasks
\* Validators that check the completed filter only.
ListErrors_NoRange(completed, page, limit) ==
    Err(completed # {} /\ ~(completed \subseteq {"true", "false"}), "completed",
        "completed must be true or false")

ListErrors(completed, page, limit) ==
    Err(completed # {} /\ ~(completed \subseteq {"true", "false"}), "completed",
        "completed must be true or false")
    \o Err(\E x \in page : x < 1, "page", "page must be >= 1")
    \o Err(\E x \in limit : x < 1 \/ x > MaxLimit, "limit",
           "limit must be between 1 and 100")

ToLowerCase(str) == IF str = "TRUE" THEN "true" ELSE str

\* Math.max(1, parseInt(req.query.page || '1', 10))
EffectivePage(page) == Max(1, IF page = {} THEN DefaultPage ELSE CHOOSE x \in page : TRUE)

\* Math.max(1, Math.min(100, parseInt(req.query.limit || '10', 10)))
EffectiveLimit(limit) ==
    Max(1, Min(MaxLimit, IF limit = {} THEN DefaultLimit ELSE CHOOSE x \in limit : TRUE))

SortField(sort) == IF sort = {} THEN "createdAt" ELSE (CHOOSE x \in sort : TRUE).field

SortDir(sort) == IF sort = {} THEN -1
                 ELSE IF (CHOOSE x \in sort : TRUE).dir = "asc" THEN 1 ELSE -1

ListResponse(l) ==
    LET found == CHOOSE x \in l.found : TRUE
        total == CHOOSE x \in l.total : TRUE
    IN [Respond("list", l.auth, l.owner, NoId, 200, "")
          EXCEPT !.tasks = found,
                 !.meta = [total |-> total, page |-> l.page, limit |-> l.limit,
                           pages |-> Ceil(total, l.limit)]]

\* GET /tasks up to issuing its two queries.
ListStart(tok, query) ==
    LET caller == VerifyToken(tok)
        completed == query.completed
        page == query.page
        limit == query.limit
        sort == query.sort
        errs == ListErrors(completed, page, limit)
    IN
    /\ lst.pc = "idle"
    /\ IF caller = NoUser
       THEN /\ last' = Unauthorized("list", tok)
            /\ lst' = lst
       ELSE IF errs # <<>>
       THEN /\ last' = Invalid("list", tok, errs)
            /\ lst' = lst
       ELSE /\ lst' = [pc |-> "run", auth |-> tok, owner |-> caller,
                       completed |-> {ToLowerCase(c) = "true" : c \in completed},
                       page |-> EffectivePage(page), limit |-> EffectiveLimit(limit),
                       sort |-> sort, found |-> {}, total |-> {}]
            /\ last' = last
    /\ UNCHANGED <<users, tasks, nextUserId, nextTaskId, now, issued, reg>>

\* The outcome of Promise.all once the second of the two queries answers.
ListSettle(l) ==
    IF l.found # {} /\ l.total # {}
    THEN /\ lst' = LstIdle
         /\ last' = ListResponse(l)
    ELSE /\ lst' = l
         /\ last' = last

\* The find query of GET /tasks is answered.
ListFind ==
    /\ lst.pc = "run"
    /\ lst.found = {}
    /\ \E r \in FindResults(tasks, lst.owner, lst.completed, SortField(lst.sort),
                            SortDir(lst.sort), (lst.page - 1) * lst.limit, lst.limit) :
          ListSettle([lst EXCEPT !.found = {r}])
    /\ UNCHANGED <<users, tasks, nextUserId, nextTaskId, now, issued, reg>>

\* The countDocuments query of GET /tasks is answered.
ListCount ==
    /\ lst.pc = "run"
    /\ lst.total = {}
    /\ ListSettle([lst EXCEPT !.total = {CountDocuments(tasks, lst.owner, lst.completed)}])
    /\ UNCHANGED <<users, tasks, nextUserId, nextTaskId, now, issued, reg>>

\* ----------------------------------------------------------- POST /tasks
CreateErrors(title, description) ==
    RequiredText(title, "title", "title is required")
    \o Err(description # Absent /\ ~IsString(description), "description",
           "description must be text")

\* A document owned by whoever the request body names.
NewTask_BodyOwner(caller, body) ==
    [id |-> nextTaskId,
     owner |-> body.owner,
     title |-> Trim(body.title.s),
     description |-> IF body.description = Absent THEN <<>> ELSE body.description.s,
     completed |-> FALSE,
     createdAt |-> now]

\* A document identified by its position in the collection.
NewTask_ReuseId(caller, body) ==
    [id |-> Cardinality(tasks) + 1,
     owner |-> caller,
     title |-> Trim(body.title.s),
     description |-> IF body.description = Absent THEN <<>> ELSE body.description.s,
     completed |-> FALSE,
     createdAt |-> now]

\* The document Task.create stores: the fields the handler passes, the
\* schema defaults, a fresh identifier.
NewTask(caller, body) ==
    [id |-> nextTaskId,
     owner |-> caller,
     title |-> Trim(body.title.s),
     description |-> IF body.description = Absent THEN <<>> ELSE body.description.s,
     completed |-> FALSE,
     createdAt |-> now]

CreateTask(tok, body) ==
    LET caller == VerifyToken(tok)
        errs == CreateErrors(body.title, body.description)
        task == NewTask(caller, body)
    IN
    /\ IF caller = NoUser
       THEN /\ last' = Unauthorized("create", tok)
            /\ UNCHANGED <<tasks, nextTaskId>>
       ELSE IF errs # <<>>
       THEN /\ last' = Invalid("create", tok, errs)
            /\ UNCHANGED <<tasks, nextTaskId>>
       ELSE /\ nextTaskId <= MaxTasks
            /\ tasks' = tasks \cup {task}
            /\ nextTaskId' = nextTaskId + 1
            /\ last' = [Respond("create", tok, caller, NoId, 201, "") EXCEPT !.task = {task}]
    /\ UNCHANGED <<users, nextUserId, now, issued, reg, lst>>

\* -------------------------------------------------------- GET /tasks/:id
IdErrors(id) == Err(~IsMongoId(id), "id", "invalid task id")

GetTask(tok, id) ==
    LET caller == VerifyToken(tok)
        errs == IdErrors(id)
        found == FindOwned(id, caller)
    IN
    /\ last' = IF caller = NoUser THEN Unauthorized("get", tok)
               ELSE IF errs # <<>> THEN Invalid("get", tok, errs)
               ELSE IF found = {} THEN NotFound("get", tok, caller, id)
               ELSE [Respond("get", tok, caller, id, 200, "") EXCEPT !.task = found]
    /\ UNCHANGED <<users, tasks, nextUserId, nextTaskId, now, issued, reg, lst>>

\* -------------------------------------------------------- PUT /tasks/:id
UpdateErrors(id, title, description, completed) ==
    IdErrors(id)
    \o (IF title = Absent THEN <<>>
        ELSE RequiredText(title, "title", "title must be a non-empty string"))
    \o Err(description # Absent /\ ~IsString(description), "description",
           "description must be text")
    \o Err(completed # Absent /\ ~IsBoolean(completed), "completed",
           "completed must be true or false")

\* A replacement of the document: fields not supplied fall back to defaults.
ApplyUpdates_Replace(t, body) ==
    [t EXCEPT
       !.title = IF body.title # Absent THEN Trim(body.title.s) ELSE @,
       !.description = IF body.description # Absent THEN body.description.s ELSE <<>>,
       !.completed = IF body.completed # Absent THEN CastBoolean(body.completed) ELSE FALSE]

\* An update that flips the completion flag whenever one is supplied.
ApplyUpdates_Toggle(t, body) ==
    [t EXCEPT
       !.title = IF body.title # Absent THEN Trim(body.title.s) ELSE @,
       !.description = IF body.description # Absent THEN body.description.s ELSE @,
       !.completed = IF body.completed # Absent THEN ~@ ELSE @]

\* { $set: updates }: only the supplied fields are written.
ApplyUpdates(t, body) ==
    [t EXCEPT
       !.title = IF body.title # Absent THEN Trim(body.title.s) ELSE @,
       !.description = IF body.description # Absent THEN body.description.s ELSE @,
       !.completed = IF body.completed # Absent THEN CastBoolean(body.completed) ELSE @]

UpdateTask(tok, id, body) ==
    LET caller == VerifyToken(tok)
        errs == UpdateErrors(id, body.title, body.description, body.completed)
        found == FindOwned(id, caller)
        old == CHOOSE t \in found : TRUE
        new == ApplyUpdates(old, body)
    IN
    /\ IF caller = NoUser
       THEN /\ last' = Unauthorized("update", tok)
            /\ tasks' = tasks
       ELSE IF errs # <<>>
       THEN /\ last' = Invalid("update", tok, errs)
            /\ tasks' = tasks
       ELSE IF found = {}
       THEN /\ last' = NotFound("update", tok, caller, id)
            /\ tasks' = tasks
       ELSE /\ tasks' = (tasks \ {old}) \cup {new}
            /\ last' = [Respond("update", tok, caller, id, 200, "") EXCEPT !.task = {new}]
    /\ UNCHANGED <<users, nextUserId, nextTaskId, now, issued, reg, lst>>

\* ----------------------------------------------------- DELETE /tasks/:id
\* A delete that removes nothing.
Removed_Nothing(found) == tasks

\* The store after findOneAndDelete removed the documents in found.
Removed(found) == tasks \ found

DeleteTask(tok, id) ==
    LET caller == VerifyToken(tok)
        errs == IdErrors(id)
        found == FindOwned(id, caller)
    IN
    /\ IF caller = NoUser
       THEN /\ last' = Unauthorized("delete", tok)
            /\ tasks' = tasks
       ELSE IF errs # <<>>
       THEN /\ last' = Invalid("delete", tok, errs)
            /\ tasks' = tasks
       ELSE IF found = {}
       THEN /\ last' = NotFound("delete", tok, caller, id)
            /\ tasks' = tasks
       ELSE /\ tasks' = Removed(found)
            /\ last' = Respond("delete", tok, caller, id, 200, "Task deleted")
    /\ UNCHANGED <<users, nextUserId, nextTaskId, now, issued, reg, lst>>

\* ------------------------------------------------------------ environments
\* Requests of user A's client with the token of its latest login, with
\* every kind of payload, over time.
SessionTokens == {t \in issued : t.id = 1 /\ t.exp = 2 * TokenTTL}

CreateBodies ==
    {NoBody,
     [NoBody EXCEPT !.title = Str(<<" ">>)],
     [NoBody EXCEPT !.title = Str(<<"a">>)],
     [NoBody EXCEPT !.title = Str(<<" ", "b">>)],
     [NoBody EXCEPT !.title = Str(<<" ", "b">>), !.description = Str(<<"d">>)],
     [NoBody EXCEPT !.title = Str(<<"a">>), !.description = Num5],
     [NoBody EXCEPT !.title = Str(<<"a">>), !.completed = Bool(TRUE)]}

\* The Update bodies that pass validation: none, one or all of the fields.
WellFormedUpdates ==
    {NoBody,
     [NoBody EXCEPT !.title = Str(<<"a">>)],
     [NoBody EXCEPT !.title = Str(<<" ", "b">>)],
     [NoBody EXCEPT !.description = Str(<<"d">>)],
     [NoBody EXCEPT !.completed = Bool(TRUE)],
     [NoBody EXCEPT !.completed = Bool(FALSE)],
     [NoBody EXCEPT !.title = Str(<<" ", "b">>), !.description = Str(<<"d">>),
                    !.completed = Bool(TRUE)]}

\* The Update bodies sent: those, and bodies with one bad field.
UpdateBodies ==
    WellFormedUpdates
    \cup {[NoBody EXCEPT !.title = Str(<<" ">>)],
          [NoBody EXCEPT !.description = Num5],
          [NoBody EXCEPT !.completed = Num5]}

\* Every body for every identifier of the right form, and a malformed
\* identifier with an empty and with a bad body.
UpdateRequests ==
    ((1..MaxTasks) \X UpdateBodies)
    \cup {<<BadId, NoBody>>, <<BadId, [NoBody EXCEPT !.title = Str(<<" ">>)]>>}

Next ==
    \/ Tick /\ Direct
    \/ \E tok \in SessionTokens : Me(tok) /\ Direct
    \/ \E tok \in SessionTokens, body \in CreateBodies : CreateTask(tok, body) /\ Direct
    \/ \E tok \in SessionTokens, id \in IdVals : GetTask(tok, id) /\ Direct
    \/ \E tok \in SessionTokens, id \in IdVals :
          UpdateTask(tok, id, [NoBody EXCEPT !.completed = Bool(TRUE)]) /\ Direct
    \/ \E tok \in SessionTokens, id \in IdVals : DeleteTask(tok, id) /\ Direct

Spec == Init /\ [][Next]_vars

\* Updates by user A's client with every kind of payload, over time, of
\* tasks created with and without a description.
NextUpdate ==
    \/ Tick /\ Direct
    \/ \E tok \in SessionTokens :
          CreateTask(tok, [NoBody EXCEPT !.title = Str(<<"a">>)]) /\ Direct
    \/ \E tok \in SessionTokens :
          CreateTask(tok, [NoBody EXCEPT !.title = Str(<<" ", "b">>),
                                         !.description = Str(<<"d">>)]) /\ Direct
    \/ \E tok \in SessionTokens, r \in UpdateRequests : UpdateTask(tok, r[1], r[2]) /\ Direct

SpecUpdate == Init /\ [][NextUpdate]_vars

\* Requests of both users' clients, with valid tokens, to every task route
\* within one clock tick, for identifiers of the right form, with one valid
\* title, updates of the completion flag or with a blank title, and lists by
\* user A's client of one task per page.
OwnTokens == {t \in issued : t.exp > now}

OwnUpdateBodies ==
    {[NoBody EXCEPT !.title = Str(<<" ">>)],
     [NoBody EXCEPT !.completed = Bool(TRUE)],
     [NoBody EXCEPT !.completed = Bool(FALSE)]}

NextOwn ==
    \/ \E tok \in OwnTokens : tok.id = 1 /\ ListStart(tok, [NoQuery EXCEPT !.limit = {1}]) /\ Direct
    \/ ListFind /\ Direct
    \/ ListCount /\ Direct
    \/ \E tok \in OwnTokens : CreateTask(tok, [NoBody EXCEPT !.title = Str(<<"a">>)]) /\ Direct
    \/ \E tok \in OwnTokens, id \in 1..MaxTasks : GetTask(tok, id) /\ Direct
    \/ \E tok \in OwnTokens, id \in 1..MaxTasks, body \in OwnUpdateBodies :
          UpdateTask(tok, id, body) /\ Direct
    \/ \E tok \in OwnTokens, id \in 1..MaxTasks : DeleteTask(tok, id) /\ Direct

SpecOwn == Init /\ [][NextOwn]_vars

\* Requests of user A's client to every protected route within one clock
\* tick, without a token, with a malformed one, with an expired one and with
\* a valid one, the bodies and the query naming user B as the owner.
GateTokens == {NoToken, BadToken} \cup {t \in issued : t.id = 1}

NextGate ==
    \/ \E tok \in GateTokens : Me(tok) /\ Direct
    \/ \E tok \in GateTokens :
          ListStart(tok, [NoQuery EXCEPT !.limit = {1}, !.owner = {2}]) /\ Direct
    \/ ListFind /\ Direct
    \/ ListCount /\ Direct
    \/ \E tok \in GateTokens :
          CreateTask(tok, [NoBody EXCEPT !.title = Str(<<"a">>), !.owner = 2]) /\ Direct
    \/ \E tok \in GateTokens, id \in IdVals : GetTask(tok, id) /\ Direct
    \/ \E tok \in GateTokens, id \in IdVals :
          UpdateTask(tok, id, [NoBody EXCEPT !.completed = Bool(TRUE), !.owner = 2]) /\ Direct
    \/ \E tok \in GateTokens, id \in IdVals : DeleteTask(tok, id) /\ Direct

SpecGate == Init /\ [][NextGate]_vars

\* GET /tasks by user A's client with every kind of query, against the
\* tasks A's client creates, completes and deletes and those B's client
\* creates, within one clock tick.
ListTokens == {t \in issued : t.exp > now}

ListQueries ==
    {NoQuery,
     [NoQuery EXCEPT !.limit = {1}],
     [NoQuery EXCEPT !.limit = {1}, !.page = {2}],
     [NoQuery EXCEPT !.limit = {0}],
     [NoQuery EXCEPT !.limit = {MaxLimit + 1}],
     [NoQuery EXCEPT !.page = {0}],
     [NoQuery EXCEPT !.completed = {"TRUE"}],
     [NoQuery EXCEPT !.completed = {"true"}],
     [NoQuery EXCEPT !.completed = {"false"}, !.limit = {1},
                     !.sort = {[field |-> "title", dir |-> "asc"]}]}

NextList ==
    \/ \E tok \in ListTokens, query \in ListQueries :
          tok.id = 1 /\ ListStart(tok, query) /\ Direct
    \/ ListFind /\ Direct
    \/ ListCount /\ Direct
    \/ \E tok \in ListTokens : CreateTask(tok, [NoBody EXCEPT !.title = Str(<<"a">>)]) /\ Direct
    \/ \E tok \in ListTokens, id \in IdVals :
          tok.id = 1 /\ UpdateTask(tok, id, [NoBody EXCEPT !.completed = Bool(TRUE)]) /\ Direct
    \/ \E tok \in ListTokens, id \in IdVals : tok.id = 1 /\ DeleteTask(tok, id) /\ Direct

SpecList == Init /\ [][NextList]_vars

\* GET /tasks by user A's client, page by page and in each order, against a
\* store that changes only between List requests: tasks with different
\* titles created at different times by both users, completed and deleted
\* by A.
PageQueries ==
    {NoQuery,
     [NoQuery EXCEPT !.limit = {1}],
     [NoQuery EXCEPT !.limit = {1}, !.page = {2}],
     [NoQuery EXCEPT !.completed = {"true"}],
     [NoQuery EXCEPT !.completed = {"false"}],
     [NoQuery EXCEPT !.limit = {1}, !.sort = {[field |-> "title", dir |-> "asc"]}],
     [NoQuery EXCEPT !.limit = {1}, !.page = {2},
                     !.sort = {[field |-> "title", dir |-> "desc"]}],
     [NoQuery EXCEPT !.sort = {[field |-> "createdAt", dir |-> "asc"]}]}

PageTitles == {<<"a">>, <<"b">>}

NextPage ==
    \/ lst.pc = "idle" /\ Tick /\ Direct
    \/ \E tok \in ListTokens, query \in PageQueries :
          tok.id = 1 /\ ListStart(tok, query) /\ Direct
    \/ ListFind /\ Direct
    \/ ListCount /\ Direct
    \/ \E tok \in ListTokens, title \in PageTitles :
          lst.pc = "idle" /\ CreateTask(tok, [NoBody EXCEPT !.title = Str(title)]) /\ Direct
    \/ \E tok \in ListTokens, id \in 1..MaxTasks :
          /\ lst.pc = "idle"
          /\ tok.id = 1
          /\ UpdateTask(tok, id, [NoBody EXCEPT !.completed = Bool(TRUE)])
          /\ Direct
    \/ \E tok \in ListTokens, id \in 1..MaxTasks :
          lst.pc = "idle" /\ tok.id = 1 /\ DeleteTask(tok, id) /\ Direct

SpecPage == Init /\ [][NextPage]_vars

\* Every route, from the empty stores, with requests that pass validation
\* and requests that fail it, with and without a valid token; the client
\* creates a task when it has none.
ValidRegisters ==
    {<<Str(<<"A", " ">>), Str(EmailA), Str(Pw1)>>,
     <<Str(<<"A", " ">>), Str(EmailA), NumPw>>}

\* Register with no or an empty name, a malformed email, a short password,
\* an empty body.
InvalidRegisters ==
    {<<Absent, Str(EmailA), Str(Pw1)>>,
     <<Str(<<" ">>), Str(EmailA), Str(Pw1)>>,
     <<Str(<<"A", " ">>), Str(<<"a">>), Str(Pw1)>>,
     <<Str(<<"A", " ">>), Str(EmailA), Str(<<"s", "e", "c">>)>>,
     <<Absent, Absent, Absent>>}

ValidLogins ==
    {<<Str(EmailA), Str(Pw1)>>, <<Str(EmailA), Str(Pw2)>>, <<Str(EmailB), Str(Pw1)>>}

InvalidLogins == {<<Str(<<"a">>), Str(Pw1)>>, <<Str(EmailA), Absent>>}

ValidCreates == {[NoBody EXCEPT !.title = Str(<<"a">>)]}

\* Create with no title, a blank title, a title or description that is not
\* text.
InvalidCreates ==
    {NoBody,
     [NoBody EXCEPT !.title = Str(<<" ">>)],
     [NoBody EXCEPT !.title = Num5],
     [NoBody EXCEPT !.title = Str(<<"a">>), !.description = Num5]}

ValidUpdates ==
    (1..MaxTasks) \X {[NoBody EXCEPT !.title = Str(<<" ", "b">>), !.completed = Bool(TRUE)]}

\* Update with a blank title, a completed flag that is not a boolean, a
\* malformed identifier.
InvalidUpdates ==
    {<<1, [NoBody EXCEPT !.title = Str(<<" ">>)]>>,
     <<1, [NoBody EXCEPT !.completed = Num5]>>,
     <<BadId, [NoBody EXCEPT !.title = Str(<<"a">>)]>>}

ValidLists == {NoQuery}

\* List with a completed filter other than true and false, a limit out of
\* range.
InvalidLists ==
    {[NoQuery EXCEPT !.completed = {"TRUE"}],
     [NoQuery EXCEPT !.limit = {0}]}

OutcomeTokens == {NoToken} \cup issued

NextOutcome ==
    \/ \E r \in ValidRegisters \cup InvalidRegisters : RegisterLookup(1, r[1], r[2], r[3]) /\ Direct
    \/ RegisterCreate(1) /\ Direct
    \/ \E r \in ValidLogins \cup InvalidLogins : Login(r[1], r[2]) /\ Direct
    \/ \E tok \in OutcomeTokens \cup {BadToken} : Me(tok) /\ Direct
    \/ \E tok \in OutcomeTokens, query \in ValidLists \cup InvalidLists :
          ListStart(tok, query) /\ Direct
    \/ ListFind /\ Direct
    \/ ListCount /\ Direct
    \/ \E tok \in OutcomeTokens, body \in ValidCreates \cup InvalidCreates :
          tasks = {} /\ CreateTask(tok, body) /\ Direct
    \/ \E tok \in OutcomeTokens, id \in IdVals : GetTask(tok, id) /\ Direct
    \/ \E tok \in OutcomeTokens, r \in ValidUpdates \cup InvalidUpdates :
          UpdateTask(tok, r[1], r[2]) /\ Direct
    \/ \E tok \in OutcomeTokens, id \in IdVals : DeleteTask(tok, id) /\ Direct

SpecOutcome == InitAuth /\ [][NextOutcome]_vars

\* ------------------------------------------------- App.jsx: the exchanges
\* The filter, sort order, page and limit of the render whose handlers are
\* running: what fetchTasks reads when one of them calls it.
Closure(c) ==
    [completedFilter |-> c.completedFilter, sortOrder |-> c.sortOrder,
     page |-> c.page, limit |-> c.limit]

\* apiFetch(path, token, opts) by the handler from, under way: sent, being
\* served, or answered with the status and body of the response.
Request(from, op, tok, id, body, closure) ==
    [from |-> from, op |-> op, tok |-> tok, id |-> id, body |-> body, closure |-> closure,
     at |-> "sent", status |-> 0, message |-> "", errors |-> <<>>, user |-> {},
     tasks |-> <<>>]

\* The request of fetchTasks: ?page=&limit=&sort=createdAt:<order>, and
\* &completed= unless the filter is 'all'.
ListQuery(closure) ==
    [NoQuery EXCEPT
       !.page = {closure.page},
       !.limit = {closure.limit},
       !.sort = {[field |-> "createdAt", dir |-> closure.sortOrder]},
       !.completed = IF closure.completedFilter = "all" THEN {}
                     ELSE {closure.completedFilter}]

FetchRequest(closure, tok) == Request("fetchTasks", "list", tok, NoId, NoBody, closure)

\* The exchange once the response r is on its way back.
Answer(m, r) ==
    [m EXCEPT !.at = "answered", !.status = r.status, !.message = r.message,
              !.errors = r.errors, !.user = r.user, !.tasks = r.tasks]

\* res.ok
Ok(m) == m.status \in 200..299

Remove(seq, i) == SubSeq(seq, 1, i - 1) \o SubSeq(seq, i + 1, Len(seq))

\* The server handles the request of exchange i; a List request goes on to
\* its two queries.
Serve(i) ==
    LET m == net[i] IN
    /\ m.at = "sent"
    /\ \/ m.op = "me" /\ Me(m.tok)
       \/ m.op = "list" /\ ListStart(m.tok, ListQuery(m.closure))
       \/ m.op = "create" /\ CreateTask(m.tok, m.body)
       \/ m.op = "update" /\ UpdateTask(m.tok, m.id, m.body)
       \/ m.op = "delete" /\ DeleteTask(m.tok, m.id)
    /\ net' = [net EXCEPT ![i] = IF m.op = "list" /\ lst'.pc = "run"
                                 THEN [m EXCEPT !.at = "serving"]
                                 ELSE Answer(m, last')]
    /\ client' = client

\* One of the two queries of the List request being served is answered.
ServeQuery(i, query) ==
    /\ net[i].at = "serving"
    /\ query
    /\ net' = IF lst'.pc = "idle" THEN [net EXCEPT ![i] = Answer(net[i], last')] ELSE net
    /\ client' = client

ServeFind(i) == ServeQuery(i, ListFind)

ServeCount(i) == ServeQuery(i, ListCount)

\* ------------------------------------------------ App.jsx: App and Tasks
\* logout(): token and user become null, the effect of useAuth removes the
\* stored token, the routes lead to the login view and Tasks unmounts.
Logout == NoClient

\* The text createTask shows for a failed request.
CreateError(m) ==
    IF m.message # "" THEN <<m.message>>
    ELSE IF m.errors # <<>> THEN [e \in 1..Len(m.errors) |-> m.errors[e].msg]
    ELSE <<"Create failed">>

\* The state after the handler that sent exchange m has run on its
\* response; the state of a component no longer shown does not change.
Continued(m) ==
    IF m.from = "me"
    THEN IF Ok(m) /\ m.user # {} THEN [client EXCEPT !.user = m.user] ELSE Logout
    ELSE IF client.view # "tasks" THEN client
    ELSE IF m.from = "fetchTasks"
    THEN IF Ok(m) THEN [client EXCEPT !.loading = FALSE, !.tasks = m.tasks]
         ELSE [client EXCEPT !.loading = FALSE, !.error = <<"Failed to load tasks">>]
    ELSE IF m.from = "createTask"
    THEN IF Ok(m) THEN [client EXCEPT !.loading = TRUE]
         ELSE [client EXCEPT !.error = CreateError(m)]
    ELSE IF m.from = "toggleComplete"
    THEN IF Ok(m) THEN [client EXCEPT !.loading = TRUE]
         ELSE [client EXCEPT !.error = <<"Update failed">>]
    ELSE IF m.from = "removeTask"
    THEN IF Ok(m) THEN [client EXCEPT !.loading = TRUE]
         ELSE [client EXCEPT !.error = <<"Delete failed">>]
    ELSE IF Ok(m)
    THEN [client EXCEPT !.loading = TRUE, !.editingId = NoId, !.editTitle = <<>>,
                        !.editDescription = <<>>]
    ELSE [client EXCEPT !.error = <<"Update failed">>]

\* The handler calls fetchTasks on this response: every handler of a
\* change does when the change succeeded.
Refetches(m) == m.from \in {"createTask", "toggleComplete", "removeTask", "saveEdit"} /\ Ok(m)

\* The response of exchange i arrives and the handler that awaits it goes on:
\* the /me check, fetchTasks, createTask, toggleComplete, removeTask or
\* saveEdit. Its fetchTasks is the one of the render it was started in.
Deliver(i) ==
    LET m == net[i] IN
    /\ m.at = "answered"
    /\ client' = Continued(m)
    /\ net' = IF Refetches(m) THEN Append(Remove(net, i), FetchRequest(m.closure, m.tok))
              ELSE Remove(net, i)
    /\ UNCHANGED <<users, tasks, nextUserId, nextTaskId, now, issued, reg, lst, last>>

\* The user changes the state c of the toolbar: the effect of Tasks calls
\* the fetchTasks of the new render.
Toolbar(c) ==
    /\ client.view = "tasks"
    /\ Closure(c) # Closure(client)
    /\ Len(net) < MaxInFlight
    /\ client' = [c EXCEPT !.loading = TRUE]
    /\ net' = Append(net, FetchRequest(Closure(c), client.token))
    /\ UNCHANGED <<users, tasks, nextUserId, nextTaskId, now, issued, reg, lst, last>>

SetCompletedFilter(v) == Toolbar([client EXCEPT !.page = 1, !.completedFilter = v])

SetSortOrder(v) == Toolbar([client EXCEPT !.sortOrder = v])

SetLimit(v) == Toolbar([client EXCEPT !.page = 1, !.limit = v])

PagePrev == client.page # 1 /\ Toolbar([client EXCEPT !.page = Max(1, @ - 1)])

PageNext == client.page < MaxPage /\ Toolbar([client EXCEPT !.page = @ + 1])

\* A handler of Tasks sends a request and awaits the response.
Send(c, request) ==
    /\ client.view = "tasks"
    /\ Len(net) < MaxInFlight
    /\ client' = c
    /\ net' = Append(net, request)
    /\ UNCHANGED <<users, tasks, nextUserId, nextTaskId, now, issued, reg, lst, last>>

\* The user submits the form with the title and description typed.
CreateSubmit(title, description) ==
    Send([client EXCEPT !.error = <<>>],
         Request("createTask", "create", client.token, NoId,
                 [NoBody EXCEPT !.title = Str(title), !.description = Str(description)],
                 Closure(client)))

\* The rows of the list, shown unless a fetchTasks is loading.
Rows == IF client.loading THEN {} ELSE {client.tasks[r] : r \in 1..Len(client.tasks)}

\* The rows with the Edit, Toggle and Delete buttons, and the row with the
\* Save and Cancel buttons.
ActionRows == {t \in Rows : t.id # client.editingId}

EditRows == {t \in Rows : t.id = client.editingId}

ToggleComplete(t) ==
    /\ t \in ActionRows
    /\ Send(client, Request("toggleComplete", "update", client.token, t.id,
                            [NoBody EXCEPT !.completed = Bool(~t.completed)], Closure(client)))

\* The user confirms the deletion.
RemoveTask(t) ==
    /\ t \in ActionRows
    /\ Send(client, Request("removeTask", "delete", client.token, t.id, NoBody, Closure(client)))

\* A step of the user that changes the state of Tasks only.
Local(c) ==
    /\ client.view = "tasks"
    /\ client' = c
    /\ UNCHANGED <<users, tasks, nextUserId, nextTaskId, now, issued, reg, lst, last, net>>

StartEdit(t) ==
    /\ t \in ActionRows
    /\ Local([client EXCEPT !.editingId = t.id, !.editTitle = t.title,
                            !.editDescription = t.description])

\* The user types in the title field of the row being edited.
TypeEditTitle(text) ==
    /\ EditRows # {}
    /\ Local([client EXCEPT !.editTitle = text])

CancelEdit ==
    /\ EditRows # {}
    /\ Local([client EXCEPT !.editingId = NoId, !.editTitle = <<>>, !.editDescription = <<>>])

SaveEdit(t) ==
    /\ t \in EditRows
    /\ Send(client, Request("saveEdit", "update", client.token, t.id,
                            [NoBody EXCEPT !.title = Str(client.editTitle),
                                           !.description = Str(client.editDescription)],
                            Closure(client)))

\* ---------------------------------------------------- client environments
\* User A's client opens the application with the token of a login one
\* tick ago in localStorage: the routes show Tasks, whose effect calls
\* fetchTasks, and the effect of App checks the token with /me.
ClientToken == [kind |-> "jwt", id |-> 1, exp |-> TokenTTL + 1]

ClientStart(store) ==
    /\ users = {UserA, UserB}
    /\ tasks = store
    /\ nextUserId = 3
    /\ nextTaskId = Cardinality(store) + 1
    /\ now = TokenTTL
    /\ issued = {ClientToken}
    /\ reg = [p \in Procs |-> RegIdle]
    /\ lst = LstIdle
    /\ last = NoResp
    /\ client = Client(Session(ClientToken, {}), [TasksMounted EXCEPT !.loading = TRUE])
    /\ net = <<FetchRequest(Closure(TasksMounted), ClientToken),
               Request("me", "me", ClientToken, NoId, NoBody, Closure(TasksMounted))>>

\* The client finds two tasks of its user in the store; the user edits,
\* saves and cancels.
TaskA ==
    [id |-> 1, owner |-> 1, title |-> <<"a">>, description |-> <<>>, completed |-> FALSE,
     createdAt |-> 1]

TaskB ==
    [id |-> 2, owner |-> 1, title |-> <<"b">>, description |-> <<"d">>, completed |-> FALSE,
     createdAt |-> 1]

\* The titles the user types: one, and none.
EditTitles == {<<"c">>, <<>>}

InitEdit == ClientStart({TaskA, TaskB})

NextEdit ==
    \/ \E i \in DOMAIN net : Serve(i)
    \/ \E i \in DOMAIN net : ServeFind(i)
    \/ \E i \in DOMAIN net : ServeCount(i)
    \/ \E i \in DOMAIN net : Deliver(i)
    \/ \E t \in Rows : StartEdit(t)
    \/ \E text \in EditTitles : TypeEditTitle(text)
    \/ CancelEdit
    \/ \E t \in Rows : SaveEdit(t)

SpecEdit == InitEdit /\ [][NextEdit]_vars

\* The client finds one task of its user in the store; the user changes
\* the filter, the sort order, the page and the page size, and adds a task.
InitView == ClientStart({TaskA})

NextView ==
    \/ \E i \in DOMAIN net : Serve(i)
    \/ \E i \in DOMAIN net : ServeFind(i)
    \/ \E i \in DOMAIN net : ServeCount(i)
    \/ \E i \in DOMAIN net : Deliver(i)
    \/ \E v \in {"all", "true"} : SetCompletedFilter(v)
    \/ \E v \in {"desc", "asc"} : SetSortOrder(v)
    \/ PageNext
    \/ PagePrev
    \/ \E v \in {InitialLimit, DefaultLimit} : SetLimit(v)
    \/ CreateSubmit(<<"b">>, <<>>)

SpecView == InitView /\ [][NextView]_vars

\* The client finds one task of its user in the store and its token
\* expires at the next tick; the user adds a task, completes, edits and
\* deletes tasks.
InitSession == ClientStart({TaskA})

NextSession ==
    \/ Tick /\ Direct
    \/ \E i \in DOMAIN net : Serve(i)
    \/ \E i \in DOMAIN net : ServeFind(i)
    \/ \E i \in DOMAIN net : ServeCount(i)
    \/ \E i \in DOMAIN net : Deliver(i)
    \/ CreateSubmit(<<"b">>, <<>>)
    \/ \E t \in Rows : ~t.completed /\ ToggleComplete(t)
    \/ \E t \in Rows : RemoveTask(t)
    \/ \E t \in Rows : StartEdit(t)
    \/ \E t \in Rows : SaveEdit(t)

SpecSession == InitSession /\ [][NextSession]_vars

\* The server answers every request it can handle, and every response
\* reaches the handler that awaits it; the user need not do anything.
SpecSessionFair ==
    /\ SpecSession
    /\ WF_vars(\E i \in DOMAIN net : Serve(i))
    /\ WF_vars(\E i \in DOMAIN net : ServeFind(i))
    /\ WF_vars(\E i \in DOMAIN net : ServeCount(i))
    /\ WF_vars(\E i \in DOMAIN net : Deliver(i))

\* ================================================================== claims
\* ------------------------------------------------------------- SpecAuth
EmailPresent(email) == \E u \in users : u.email = email.s

\* C4: every Register attempt that passes validation and whose email is
\* already in the Credential Store when the handler looks it up is answered
\* 409 "Email already registered", with no token, no insert started and the
\* set of user records unchanged.
C4_DuplicateIdentity ==
    [][\A p \in Procs, r \in WellFormedRegisters :
         (/\ EmailPresent(r[2])
          /\ RegisterLookup(p, r[1], r[2], r[3]))
         => /\ last'.op = "register"
            /\ last'.status = 409
            /\ last'.message = "Email already registered"
            /\ last'.token = {}
            /\ last'.user = {}
            /\ users' = users
            /\ issued' = issued
            /\ reg' = reg]_vars

\* A duplicate registration has been answered 409.
C4_Witness ==
    /\ last.op = "register"
    /\ last.status = 409
    /\ users # {}

\* C5: no two user records share an email, whatever the interleaving of the
\* lookup and insert steps of concurrent Register requests.
C5_UniqueEmail == \A u, v \in users : u.email = v.email => u = v

\* A Register request passed its lookup, another request registered the
\* same email meanwhile, and the first one's insert is still to come.
C5_Witness ==
    \E p \in Procs :
       /\ reg[p].pc = "create"
       /\ \E u \in users : u.email = reg[p].email

WrongPassword(email, password) ==
    /\ EmailPresent(email)
    /\ \A u \in users : u.email = email.s => (password.t # "str" \/ Hash(password) # u.password)

\* C6: a Login with a well-formed email and a non-empty password gets, for
\* a known email and a wrong password, 401 with no token and the very
\* response an attempt with an unknown email gets.
C6_LoginIndistinguishable ==
    [][\A r \in WellFormedLogins :
         (/\ WrongPassword(r[1], r[2])
          /\ Login(r[1], r[2]))
         => /\ last'.status = 401
            /\ last'.token = {}
            /\ \A q \in WellFormedLogins :
                  ~EmailPresent(q[1]) => last' = LoginResponse(q[1], q[2])]_vars

\* -------------------------------------------------------------- SpecOwn
\* The step is an Update request for id with token tok and a body that
\* passes validation or, with valid FALSE, one that does not.
UpdateRequest(tok, id, valid) ==
    /\ last'.op = "update"
    /\ last' # last \/ tasks' # tasks
    /\ \E body \in OwnUpdateBodies :
          /\ valid = (UpdateErrors(id, body.title, body.description, body.completed) = <<>>)
          /\ UpdateTask(tok, id, body)

\* The step is a Get, Update or Delete request for id with token tok that
\* passes validation.
TaskRequest(tok, id) ==
    \/ last'.op = "get" /\ last' # last /\ GetTask(tok, id)
    \/ UpdateRequest(tok, id, TRUE)
    \/ last'.op = "delete" /\ last' # last /\ DeleteTask(tok, id)

\* The caller is authenticated and the task id exists and belongs to
\* another user.
NotOwner(tok, id) ==
    /\ VerifyToken(tok) # NoUser
    /\ \E t \in tasks : t.id = id /\ t.owner # VerifyToken(tok)

\* C1: every Get, Update or Delete request of an authenticated user for a
\* task owned by another user is answered 404 "Task not found", as for an
\* identifier that does not exist and never 403, unless it is an Update
\* whose body fails validation, which is answered 400; either way the
\* response carries no task and every task is left as it was.
C1_NonOwnerNotFound ==
    [][\A id \in 1..MaxTasks :
         /\ (NotOwner(last'.auth, id) /\ TaskRequest(last'.auth, id))
            => /\ last' = NotFound(last'.op, last'.auth, VerifyToken(last'.auth), id)
               /\ last'.status = 404
               /\ tasks' = tasks
         /\ (NotOwner(last'.auth, id) /\ UpdateRequest(last'.auth, id, FALSE))
            => /\ last'.status = 400
               /\ last'.task = {}
               /\ tasks' = tasks]_vars

\* A request for a task its caller does not own has been answered 404.
C1_Witness ==
    /\ last.op \in {"get", "update", "delete"}
    /\ last.status = 404
    /\ \E t \in tasks : t.id = last.id /\ t.owner # last.owner

\* The identifier was assigned to a task that is no longer stored.
Deleted(id) ==
    /\ id \in 1..(nextTaskId - 1)
    /\ \A t \in tasks : t.id # id

\* The find query of a List request is answered in this step.
FindAnswered ==
    /\ lst.pc = "run"
    /\ lst.found = {}
    /\ lst'.pc = "idle" \/ lst'.found # {}

\* The page that query returned.
FoundPage == IF lst'.pc = "idle" THEN last'.tasks ELSE CHOOSE r \in lst'.found : TRUE

\* C7: a task enters the store incomplete and under a fresh identifier;
\* its completion flag changes only by a successful Update of its owner,
\* which sets it to the supplied value in either direction; it leaves the
\* store only by a successful Delete of its owner, after which it is gone
\* for good: its identifier is never stored again, every later Get, Update
\* or Delete on it that passes authentication and validation is answered
\* 404 and changes nothing, and no List query answered afterwards
\* returns it.
C7_Lifecycle ==
    [][/\ \A t \in tasks' :
             (\A s \in tasks : s.id # t.id) => ~t.completed /\ ~Deleted(t.id)
       /\ \A s \in tasks, t \in tasks' :
             (s.id = t.id /\ s.completed # t.completed)
             => /\ last'.op = "update"
                /\ last'.status = 200
                /\ last'.id = s.id
                /\ VerifyToken(last'.auth) = s.owner
       /\ \A c \in BOOLEAN :
             (/\ last'.op = "update"
              /\ last'.status = 200
              /\ UpdateTask(last'.auth, last'.id, [NoBody EXCEPT !.completed = Bool(c)]))
             => \E t \in tasks' : t.id = last'.id /\ t.completed = c
       /\ \A s \in tasks :
             (\A t \in tasks' : t.id # s.id)
             => /\ last'.op = "delete"
                /\ last'.status = 200
                /\ last'.id = s.id
                /\ VerifyToken(last'.auth) = s.owner
       /\ \A id \in 1..MaxTasks :
             (last'.op = "delete" /\ last'.status = 200 /\ DeleteTask(last'.auth, id))
             => Deleted(id)'
       /\ \A id \in 1..MaxTasks : Deleted(id) => Deleted(id)'
       /\ \A id \in 1..MaxTasks :
             (Deleted(id) /\ VerifyToken(last'.auth) # NoUser /\ TaskRequest(last'.auth, id))
             => /\ last'.status = 404
                /\ last'.message = "Task not found"
                /\ tasks' = tasks
       /\ FindAnswered
          => \A i \in 1..Len(FoundPage) : ~Deleted(FoundPage[i].id)]_vars

\* A request for a deleted task has been answered 404 while another task
\* is completed.
C7_Witness ==
    /\ last.op \in {"get", "update", "delete"}
    /\ last.status = 404
    /\ Deleted(last.id)
    /\ \E t \in tasks : t.completed

\* ------------------------------------------------------------- SpecGate
Protected == {"me", "list", "create", "get", "update", "delete"}

\* The tasks a step inserted, removed or rewrote.
Touched == (tasks' \ tasks) \cup (tasks \ tasks')

\* C3: a request to /me or to a task route whose token is missing,
\* malformed or expired is answered 401 and changes neither store nor
\* starts a query; a request that is served carries a verified token, and
\* the owner of every Task Store call, of every task written and of every
\* task returned is the identity of that token, whatever the body names.
C3_TokenGate ==
    [][/\ (last' # last /\ last'.op \in Protected /\ VerifyToken(last'.auth) = NoUser)
          => /\ last' = Unauthorized(last'.op, last'.auth)
             /\ UNCHANGED <<users, tasks, nextTaskId, lst>>
       /\ (last' # last /\ last'.op \in Protected /\ VerifyToken(last'.auth) # NoUser)
          => /\ last'.owner \in {NoUser, VerifyToken(last'.auth)}
             /\ \A u \in last'.user : u.id = VerifyToken(last'.auth)
             /\ \A t \in last'.task : t.owner = VerifyToken(last'.auth)
             /\ \A i \in 1..Len(last'.tasks) : last'.tasks[i].owner = last'.auth.id
       /\ tasks' # tasks
          => /\ last'.op \in {"create", "update", "delete"}
             /\ VerifyToken(last'.auth) # NoUser
             /\ \A t \in Touched : t.owner = VerifyToken(last'.auth)
       /\ (lst.pc = "idle" /\ lst'.pc = "run")
          => /\ VerifyToken(lst'.auth) # NoUser
             /\ lst'.owner = VerifyToken(lst'.auth)]_vars

\* A request with an expired token has been answered 401 while the caller
\* has tasks.
C3_Witness ==
    /\ last.op \in Protected \ {"me"}
    /\ last.status = 401
    /\ last.auth.kind = "jwt"
    /\ \E t \in tasks : t.owner = last.auth.id

\* ------------------------------------------------------------- SpecList
\* C2: every List response holds only tasks owned by the identity of the
\* request's token, and no more of them than the effective limit, which
\* lies between 1 and 100; the same holds of the page of a request still
\* in flight.
C2_ListScoped ==
    /\ (last.op = "list" /\ last.status = 200)
       => /\ \A i \in 1..Len(last.tasks) : last.tasks[i].owner = last.auth.id
          /\ Len(last.tasks) <= last.meta.limit
          /\ last.meta.limit \in 1..MaxLimit
    /\ lst.pc = "run"
       => /\ lst.owner = lst.auth.id
          /\ lst.limit \in 1..MaxLimit
          /\ \A r \in lst.found :
                /\ Len(r) <= lst.limit
                /\ \A i \in 1..Len(r) : r[i].owner = lst.owner

\* A List response filled its page while the store holds more tasks than
\* the limit, one of them another user's.
C2_Witness ==
    /\ last.op = "list"
    /\ last.status = 200
    /\ Len(last.tasks) = last.meta.limit
    /\ Cardinality(tasks) > last.meta.limit
    /\ \E t \in tasks : t.owner # last.auth.id

\* The step is the start of a List request with this token and query.
ListStarted(tok, query) ==
    /\ lst.pc = "idle"
    /\ lst' # lst \/ last' # last
    /\ ListStart(tok, query)

\* The token of the List request that started or was turned down.
StartToken == IF lst' # lst THEN lst'.auth ELSE last'.auth

\* The value of a query parameter, or the default when it is absent.
Supplied(param, default) == IF param = {} THEN default ELSE CHOOSE x \in param : TRUE

\* A supplied page below 1 or a supplied limit outside 1..100.
OutOfRange(query) ==
    \/ \E x \in query.page : x < 1
    \/ \E x \in query.limit : x < 1 \/ x > MaxLimit

\* C11: a List request of an authenticated caller with a well-formed
\* completed filter is served with page 1 when page is absent and limit 10
\* when limit is absent, and with the supplied values otherwise, so with a
\* page >= 1 and a limit within 1..100, which its response reports; but a
\* supplied page below 1 or limit outside 1..100 is not clamped: the
\* request is answered 400 and no query is issued.
C11_Pagination ==
    [][/\ \A query \in ListQueries :
             (/\ VerifyToken(StartToken) # NoUser
              /\ query.completed \subseteq {"true", "false"}
              /\ ListStarted(StartToken, query))
             => IF OutOfRange(query)
                THEN /\ last'.op = "list"
                     /\ last'.status = 400
                     /\ lst' = lst
                     /\ tasks' = tasks
                ELSE /\ lst'.pc = "run"
                     /\ lst'.page = Supplied(query.page, DefaultPage)
                     /\ lst'.limit = Supplied(query.limit, DefaultLimit)
                     /\ lst'.page >= 1
                     /\ lst'.limit \in 1..MaxLimit
       /\ (lst.pc = "run" /\ lst'.pc = "idle")
          => /\ last'.meta.page = lst.page
             /\ last'.meta.limit = lst.limit]_vars

\* A request without page and limit is being served after one with a
\* limit out of range was turned down.
C11_Witness ==
    /\ lst.pc = "run"
    /\ lst.page = DefaultPage
    /\ lst.limit = DefaultLimit
    /\ last.op = "list"
    /\ last.status = 400
    /\ \E e \in 1..Len(last.errors) : last.errors[e].param = "limit"

\* C11 as stated: every List request of an authenticated caller with a
\* well-formed completed filter is served, with the supplied or default
\* page clamped to >= 1 and the supplied or default limit clamped into
\* 1..100.
C11_Clamped ==
    [][\A query \in ListQueries :
         (/\ VerifyToken(StartToken) # NoUser
          /\ query.completed \subseteq {"true", "false"}
          /\ ListStarted(StartToken, query))
         => /\ lst'.pc = "run"
            /\ lst'.page = Max(1, Supplied(query.page, DefaultPage))
            /\ lst'.limit = Max(1, Min(MaxLimit, Supplied(query.limit, DefaultLimit)))]_vars

\* C17: every List response describes one store state, also when Create
\* and Delete requests of the same owner are handled while it is served:
\* it holds no more tasks than meta.total, and the page it reports lies
\* within meta.pages whenever it holds a task.
C17_ListSnapshot ==
    (last.op = "list" /\ last.status = 200)
    => /\ Len(last.tasks) <= last.meta.total
       /\ last.tasks # <<>> => last.meta.page <= last.meta.pages

\* ------------------------------------------------------------- SpecPage
\* The completion filter a query asks for: the set of completion states
\* its tasks may have, or {} for both.
RequestedFilter(query) == {c = "true" : c \in query.completed}

\* t may stand before u in the order the sort parameter asks for:
\* field:asc ascending, any other direction descending, and creation time
\* descending without a sort parameter.
InOrder(t, u, sort) ==
    LET s == CHOOSE x \in sort : TRUE
        leq(a, b) == IF sort # {} /\ s.field = "title" THEN StrLeq(a.title, b.title)
                     ELSE a.createdAt <= b.createdAt
    IN IF sort # {} /\ s.dir = "asc" THEN leq(t, u) ELSE leq(u, t)

\* page is the stretch skip+1 .. skip+limit of a listing of the set M in
\* the order of the sort parameter.
IsPageOf(page, M, sort, skip, limit) ==
    LET n == Cardinality(M)
        shown == {page[i] : i \in 1..Len(page)}
    IN /\ shown \subseteq M
       /\ Cardinality(shown) = Len(page)
       /\ Len(page) = Max(0, Min(limit, n - skip))
       /\ \A i, j \in 1..Len(page) : i < j => InOrder(page[i], page[j], sort)
       /\ \E before \in SUBSET (M \ shown) :
             /\ Cardinality(before) = Min(skip, n)
             /\ \A b \in before, x \in M \ before : InOrder(b, x, sort)
             /\ \A x \in shown, y \in M \ (before \cup shown) : InOrder(x, y, sort)

\* C12: a List request of an authenticated caller is run for the caller as
\* owner with the completion filter, page, limit and sort of its query, and,
\* the store not changing while it is served, its response holds exactly the
\* tasks at positions (page-1)*limit .. page*limit-1 of the caller's tasks
\* matching the filter, in the requested order (creation time descending
\* by default), with meta.total the number of matching tasks, meta.page and
\* meta.limit the effective values and meta.pages = ceil(total/limit),
\* which is 0, with no tasks, when nothing matches.
C12_ListPage ==
    [][/\ \A query \in PageQueries :
             (VerifyToken(StartToken) # NoUser /\ ListStarted(StartToken, query))
             => /\ lst'.pc = "run"
                /\ lst'.owner = StartToken.id
                /\ lst'.completed = RequestedFilter(query)
                /\ lst'.page = Supplied(query.page, DefaultPage)
                /\ lst'.limit = Supplied(query.limit, DefaultLimit)
                /\ lst'.sort = query.sort
       /\ (lst.pc = "run" /\ lst'.pc = "idle")
          => LET M == {t \in tasks : /\ t.owner = lst.owner
                                     /\ lst.completed # {} => t.completed \in lst.completed}
                 total == Cardinality(M)
                 meta == last'.meta
             IN /\ last'.op = "list"
                /\ last'.status = 200
                /\ IsPageOf(last'.tasks, M, lst.sort, (lst.page - 1) * lst.limit, lst.limit)
                /\ meta.total = total
                /\ meta.page = lst.page
                /\ meta.limit = lst.limit
                /\ meta.pages * lst.limit >= total
                /\ (meta.pages - 1) * lst.limit < total
                /\ total = 0 => (meta.pages = 0 /\ last'.tasks = <<>>)]_vars

\* The second page of one task was returned of two tasks of the caller with
\* different titles.
C12_Witness ==
    /\ last.op = "list"
    /\ last.status = 200
    /\ last.meta.page = 2
    /\ last.meta.total = 2
    /\ Len(last.tasks) = 1
    /\ \E t, u \in tasks : t.owner = last.auth.id /\ u.owner = last.auth.id /\ t.title # u.title

\* ---------------------------------------------------------- SpecOutcome
\* The response carries nothing but its status and message.
Bare(r) == r.errors = <<>> /\ r.token = {} /\ r.user = {} /\ r.task = {} /\ r.tasks = <<>>

\* The response is of exactly one outcome kind, with the status of its kind.
Outcome(r) ==
    CASE r.status = 400 ->
           /\ r.errors # <<>>
           /\ r.token = {} /\ r.user = {} /\ r.task = {} /\ r.tasks = <<>>
      [] r.status = 409 ->
           r.op = "register" /\ r.message = "Email already registered" /\ Bare(r)
      [] r.status = 401 ->
           /\ Bare(r)
           /\ \/ r.op = "login" /\ r.message = "Invalid credentials"
              \/ /\ r.op \in {"me", "list", "create", "get", "update", "delete"}
                 /\ VerifyToken(r.auth) = NoUser
      [] r.status = 404 ->
           r.op \in {"get", "update", "delete"} /\ r.message = "Task not found" /\ Bare(r)
      [] r.status = 500 -> r.message = "Server error" /\ Bare(r)
      [] r.status = 201 -> r.op \in {"register", "create"} /\ r.errors = <<>>
      [] r.status = 200 ->
           r.op \in {"login", "me", "list", "get", "update", "delete"} /\ r.errors = <<>>
      [] OTHER -> FALSE

\* The request was turned down for its fields, or for its token, before
\* any store call: nothing is stored and no store call is in flight.
Rejected(statuses) ==
    /\ last'.status \in statuses
    /\ UNCHANGED <<users, tasks, nextUserId, nextTaskId, issued, reg, lst>>

\* The statuses a request failing validation on a protected route may get.
Refusal(tok) == IF VerifyToken(tok) = NoUser THEN {401} ELSE {400}

\* C13: every response is of exactly one outcome kind with the status of
\* that kind (validation failure 400, duplicate identity 409, invalid
\* credentials or missing/bad token 401, not found 404, internal failure
\* 500, success 200 or 201), and a request that fails validation (Register
\* with an empty name, a malformed email or a password shorter than 6;
\* Create or Update with a title empty after trimming; a malformed id; a
\* completed filter other than true and false) is answered before any store
\* call: both stores stay as they were.
C13_Outcomes ==
    [][(last' # last) =>
          /\ Outcome(last')
          /\ last'.status = 400 => Rejected({400})
          /\ \A r \in InvalidRegisters :
                (last'.op = "register" /\ RegisterLookup(1, r[1], r[2], r[3]))
                => Rejected({400})
          /\ \A r \in InvalidLogins :
                (last'.op = "login" /\ Login(r[1], r[2])) => Rejected({400})
          /\ \A body \in InvalidCreates :
                (last'.op = "create" /\ CreateTask(last'.auth, body))
                => Rejected(Refusal(last'.auth))
          /\ \A r \in InvalidUpdates :
                (last'.op = "update" /\ UpdateTask(last'.auth, r[1], r[2]))
                => Rejected(Refusal(last'.auth))
          /\ (last'.op = "get" /\ GetTask(last'.auth, BadId))
             => Rejected(Refusal(last'.auth))
          /\ (last'.op = "delete" /\ DeleteTask(last'.auth, BadId))
             => Rejected(Refusal(last'.auth))
          /\ \A query \in InvalidLists :
                (last'.op = "list" /\ ListStart(last'.auth, query))
                => Rejected(Refusal(last'.auth))]_vars

\* An Update with a bad field was answered 400 while both stores hold a
\* record.
C13_Witness ==
    /\ last.op = "update"
    /\ last.status = 400
    /\ users # {}
    /\ tasks # {}

\* ------------------------------------------------------------- SpecEdit
\* The response of a successful Save of task id arrives.
Saved(id) ==
    \E i \in DOMAIN net :
       /\ net[i].from = "saveEdit"
       /\ net[i].id = id
       /\ net[i].at = "answered"
       /\ Ok(net[i])
       /\ Deliver(i)

\* C15: at most one row of the task view is in editing mode, and while a
\* task is being edited no edit of another task starts: the open edit keeps
\* its task until it ends, which it does only by Cancel or by a successful
\* Save of that task, and its title and description change only by the
\* user's typing in it.
C15_SingleEdit ==
    [][client.editingId # NoId =>
          /\ Cardinality({r \in 1..Len(client.tasks) :
                             client.tasks[r].id = client.editingId}) <= 1
          /\ client'.editingId \in {client.editingId, NoId}
          /\ client'.editingId = NoId => (CancelEdit \/ Saved(client.editingId))
          /\ (client'.editingId = client.editingId /\ client'.editTitle # client.editTitle)
             => \E text \in EditTitles : TypeEditTitle(text)
          /\ client'.editingId = client.editingId
             => client'.editDescription = client.editDescription]_vars

\* ------------------------------------------------------------- SpecView
\* The response of a successful Create, Update or Delete of exchange i
\* arrives in the task view.
Changed(i) ==
    /\ net[i].op \in {"create", "update", "delete"}
    /\ net[i].at = "answered"
    /\ net[i].status \in 200..299
    /\ client.view = "tasks"
    /\ Deliver(i)

\* The response of a successful List of exchange i arrives.
Listed(i) ==
    /\ net[i].op = "list"
    /\ net[i].at = "answered"
    /\ net[i].status \in 200..299
    /\ Deliver(i)

\* C16: in the task view, the arrival of the response of every successful
\* create, edit-save, toggle and delete sends a List request for the
\* filter, sort order, page and limit the view then has, and the displayed
\* list changes only when a List response arrives, to the tasks of that
\* response.
C16_Refetch ==
    [][/\ \A i \in DOMAIN net :
             Changed(i)
             => /\ net' # <<>>
                /\ net'[Len(net')].op = "list"
                /\ net'[Len(net')].at = "sent"
                /\ net'[Len(net')].tok = client'.token
                /\ ListQuery(net'[Len(net')].closure) = ListQuery(Closure(client'))
       /\ client'.tasks # client.tasks
          => \E i \in DOMAIN net : Listed(i) /\ client'.tasks = net[i].tasks]_vars

\* The completion states, the sort direction a List for the view's present
\* filter and sort order asks for.
ViewFilter == IF client.completedFilter = "all" THEN {} ELSE {client.completedFilter = "true"}

ViewDir == IF client.sortOrder = "asc" THEN 1 ELSE -1

\* C18: in the task view, once no List request and no change is under way,
\* the displayed list is the response to a List request for the view's
\* present filter, sort order, page and limit: the page the store holds for
\* them; no response to an earlier request has replaced it.
C18_LatestShown ==
    (client.view = "tasks" /\ \A i \in DOMAIN net : net[i].op = "me")
    => client.tasks \in FindResults(tasks, client.token.id, ViewFilter, "createdAt", ViewDir,
                                    (client.page - 1) * client.limit, client.limit)

\* ------------------------------------------------------ SpecSessionFair
\* A response with status 401 is on its way to the client.
Answered401 == \E i \in DOMAIN net : net[i].at = "answered" /\ net[i].status = 401

\* The session state is cleared and the login view is shown.
SessionCleared ==
    /\ client.token = NoToken
    /\ client.user = {}
    /\ client.stored = NoToken
    /\ client.view = "login"

\* C14: whenever a response with status 401 comes back to the client, to
\* the /me check, a List, a create, an edit-save, a toggle or a delete,
\* the client eventually has no token and no user, has removed the stored
\* token, and shows the login view.
C14_LogoutOn401 == Answered401 ~> SessionCleared

\* ----------------------------------------------------------- SpecUpdate
\* The step is a served Update with this body.
UpdateServed(body) ==
    /\ last'.op = "update"
    /\ last'.status = 200
    /\ last' # last \/ tasks' # tasks
    /\ UpdateTask(last'.auth, last'.id, body)

\* C8: a successful Update writes the supplied values to exactly the
\* supplied fields among title, description and completed of the addressed
\* task, keeps its other fields, and leaves every other task as it was; no
\* step changes the owner or the creation time of a task.
C8_UpdateFrame ==
    [][/\ \A body \in WellFormedUpdates :
             UpdateServed(body)
             => \E old \in tasks, new \in tasks' :
                   /\ old.id = last'.id
                   /\ new.id = last'.id
                   /\ tasks' \ {new} = tasks \ {old}
                   /\ new.owner = old.owner
                   /\ new.createdAt = old.createdAt
                   /\ new.title = IF body.title = Absent THEN old.title
                                  ELSE Trim(body.title.s)
                   /\ new.description = IF body.description = Absent THEN old.description
                                        ELSE body.description.s
                   /\ new.completed = IF body.completed = Absent THEN old.completed
                                      ELSE body.completed = Bool(TRUE)
       /\ \A s \in tasks, t \in tasks' :
             s.id = t.id => s.owner = t.owner /\ s.createdAt = t.createdAt]_vars

\* An Update of the title alone has been served for a completed task with
\* a description, next to another task.
C8_Witness ==
    /\ last.op = "update"
    /\ last.status = 200
    /\ Cardinality(tasks) >= 2
    /\ \E t \in last.task :
          /\ t \in tasks
          /\ t.title = <<"a">>
          /\ t.description = <<"d">>
          /\ t.completed

\* C9: after a successful Update, the same Update (same token, id and
\* supplied fields) finds the task again, rewrites it to what it already
\* is and is answered as the first one was.
C9_UpdateIdempotent ==
    [][\A body \in WellFormedUpdates :
         UpdateServed(body)
         => LET again == {t \in tasks' : t.id = last'.id /\ t.owner = VerifyToken(last'.auth)}
            IN /\ again # {}
               /\ UpdateErrors(last'.id, body.title, body.description, body.completed) = <<>>
               /\ \A t \in again :
                     /\ ApplyUpdates(t, body) = t
                     /\ last'.task = {ApplyUpdates(t, body)}]_vars

\* An Update supplying all three fields has been served.
C9_Witness ==
    /\ last.op = "update"
    /\ last.status = 200
    /\ \E t \in last.task :
          /\ t \in tasks
          /\ t.title = <<"b">>
          /\ t.description = <<"d">>
          /\ t.completed

\* ----------------------------------------------------------------- Spec
\* The number of tasks of an owner.
TaskCount(store, owner) == Cardinality({t \in store : t.owner = owner})

\* C10: every accepted Create stores one new task under an identifier no
\* task had before, owned by the caller and incomplete, whatever tasks
\* with the same title and description exist, and raises the caller's
\* task count by one.
C10_CreateFresh ==
    [][\A body \in CreateBodies :
         (/\ last'.op = "create"
          /\ last'.status = 201
          /\ CreateTask(last'.auth, body))
         => \E t \in last'.task :
               /\ t.id \notin 1..(nextTaskId - 1)
               /\ \A s \in tasks : s.id # t.id
               /\ tasks' = tasks \cup {t}
               /\ t.owner = VerifyToken(last'.auth)
               /\ ~t.completed
               /\ TaskCount(tasks', t.owner) = TaskCount(tasks, t.owner) + 1]_vars

\* A second Create with the same title and description has been accepted.
C10_Witness ==
    /\ last.op = "create"
    /\ last.status = 201
    /\ \E s \in tasks, t \in last.task :
          /\ t \in tasks
          /\ s.id # t.id
          /\ s.owner = t.owner
          /\ s.title = t.title
          /\ s.description = t.description
====
